---- MODULE Spec2Model ----
(***************************************************************************)
(* Model of src/app.py: a Streamlit page that saves an uploaded document   *)
(* to a temp file, extracts its text, sends it with a prompt template to   *)
(* GigaChat, renders the answer and removes the temp file.                 *)
(*                                                                         *)
(* Strings whose characters matter (file names, paths, selector entries,   *)
(* prompts) are sequences of one-character or atomic chunks; a space is    *)
(* always an element of its own.                                           *)
(***************************************************************************)
EXTENDS Integers, Sequences, FiniteSets, TLC

VARIABLES pc, run, disk, document, prompt, api_key, model_name, scope, model,
          start_button, document_path, document_text, template, llm,
          invocations, ui, log, calls, unit

vars == <<pc, run, disk, document, prompt, api_key, model_name, scope, model,
          start_button, document_path, document_text, template, llm,
          invocations, ui, log, calls, unit>>

(* ---------------------------- bounds ---------------------------------- *)
MaxRuns == 2
MaxPromptLen == 2
MaxDocs == 2

(* ---------------------------- values ---------------------------------- *)
None == "None"
Raise == "raise"

Temperature == 0

\* st.file_uploader(..., type=["pdf", "docx"]): the names the uploader can
\* hand to main (the extension filter is case-insensitive).
UploadNames ==
    { <<"a", ".", "p", "d", "f">>,
      <<"a", ".", "d", "o", "c", "x">>,
      <<"a", ".", "P", "D", "F">> }

\* Paths a direct caller can pass to extract_text_from_file.
UnitPaths ==
    UploadNames \cup
    { <<"a", ".", "t", "x", "t">>,
      <<"a", "p", "d", "f">>,
      <<"a", ".", "p", "d", "f", ".", "t", "x", "t">>,
      <<"a", ".", "p", "d", "f", ".", "d", "o", "c", "x">>,
      <<"a", ".", "d", "o", "c", "x", ".", "p", "d", "f">>,
      <<"d", "o", "c", "x">>,
      <<".", "p", "d", "f">>,
      <<".", "d", "o", "c", "x">>,
      <<"a", ".", "D", "O", "C", "X">>,
      <<"a", ".", "d", "o", "c">>,
      <<"a", ".", "p", "d", "f", "x">>,
      <<"a", ".">>,
      << >> }

\* Labels a direct caller can pass to get_model.
UnitLabels ==
    { <<"GigaChat-Lite">>, <<"GigaChat-Pro">>, <<"GigaChat-Max">>,
      <<"GigaChat">>, <<"gigachat-lite">>, <<"GigaChat-Lite", " ", "*">>,
      <<"GigaChat-Max", " ">>, << >> }

ModelSelector ==
    { <<"GigaChat-Lite", " ", "*">>,
      <<"GigaChat-Pro", " ", "*", "*">>,
      <<"GigaChat-Max", " ", "*", "*", "*">> }

ScopeSelector ==
    { <<"GIGACHAT_API_PERS", " ", "(", "for", " ", "individuals", ")">>,
      <<"GIGACHAT_API_CORP">>,
      <<"GIGACHAT_API_B2B">> }

ApiKeys == { "", "key" }

\* Page contents a loader can return.
Texts == { "", "text" }

\* Prompt pieces: literal text, the {document_text} field, a field naming
\* another variable, and a lone brace (malformed for str.format parsing).
PromptTokens == { "t", "{document_text}", "{other}", "{", "}" }

RECURSIVE SeqsUpTo(_, _)
SeqsUpTo(S, n) ==
    IF n = 0 THEN { << >> }
    ELSE LET shorter == SeqsUpTo(S, n - 1)
         IN  shorter \cup { Append(s, x) : s \in shorter, x \in S }

Prompts == SeqsUpTo(PromptTokens, MaxPromptLen)

\* What loader.load() can do: return a list of documents or raise.
LoaderOutcomes ==
    { [ raises |-> FALSE, docs |-> d ] : d \in SeqsUpTo(Texts, MaxDocs) }
        \cup { [ raises |-> TRUE, docs |-> << >> ] }

\* What the remote call can do.
ChatOutcomes == { "result", Raise }

(* ------------------------- string helpers ----------------------------- *)
\* str.endswith
EndsWith(s, suffix) ==
    /\ Len(s) >= Len(suffix)
    /\ SubSeq(s, Len(s) - Len(suffix) + 1, Len(s)) = suffix

\* Mutant: the entry is used whole.
FirstTokenNoSplit(s) == s

\* s.split(" ")[0]
FirstToken(s) ==
    LET spaces == { i \in 1..Len(s) : s[i] = " " }
    IN  IF spaces = {} THEN s
        ELSE SubSeq(s, 1, (CHOOSE i \in spaces : \A j \in spaces : i <= j) - 1)

DocxSuffix == <<".", "d", "o", "c", "x">>
PdfSuffix == <<".", "p", "d", "f">>

(* --------------------------- save_file -------------------------------- *)
\* f"{unique_id}_{file.name}" ; uuid4 is modelled by the run number.
FileName(unique_id, name) == <<unique_id, "_">> \o name

(* ---------------------- extract_text_from_file ------------------------ *)
\* loader.load()[0].page_content ; outcome is what load() does.
FirstPageContent(kind, outcome) ==
    IF outcome.raises
    THEN [ raised |-> TRUE, value |-> "loader_error", loads |-> <<kind>>, log |-> << >> ]
    ELSE IF Len(outcome.docs) = 0
    THEN [ raised |-> TRUE, value |-> "IndexError", loads |-> <<kind>>, log |-> << >> ]
    ELSE [ raised |-> FALSE, value |-> outcome.docs[1], loads |-> <<kind>>, log |-> << >> ]

\* Mutant: the suffixes are compared without their dot.
ExtractTryNoDot(uploaded_file, outcome) ==
    IF EndsWith(uploaded_file, Tail(DocxSuffix)) THEN FirstPageContent("Docx2txtLoader", outcome)
    ELSE IF EndsWith(uploaded_file, Tail(PdfSuffix)) THEN FirstPageContent("PyPDFLoader", outcome)
    ELSE [ raised |-> TRUE, value |-> "unsupported", loads |-> << >>,
           log |-> <<[msg |-> "unsupported", detail |-> "unsupported"]>> ]

\* The body of the try block: the dispatch on the extension.
ExtractTry(uploaded_file, outcome) ==
    IF EndsWith(uploaded_file, DocxSuffix) THEN FirstPageContent("Docx2txtLoader", outcome)
    ELSE IF EndsWith(uploaded_file, PdfSuffix) THEN FirstPageContent("PyPDFLoader", outcome)
    ELSE [ raised |-> TRUE, value |-> "unsupported", loads |-> << >>,
           log |-> <<[msg |-> "unsupported", detail |-> "unsupported"]>> ]

\* Mutant: only ValueError is caught, so a loader failure leaves the function.
ExtractOnlyValueError(uploaded_file, outcome) ==
    LET t == ExtractTry(uploaded_file, outcome)
    IN  IF t.raised /\ t.value = "unsupported"
        THEN [ ret |-> None, raised |-> FALSE, loads |-> t.loads,
               log |-> Append(t.log, [msg |-> "read_error", detail |-> t.value]),
               ui  |-> <<[fn |-> "st.error", msg |-> "read_error", detail |-> t.value]>> ]
        ELSE [ ret |-> t.value, raised |-> t.raised, loads |-> t.loads,
               log |-> t.log, ui |-> << >> ]

\* Mutant: the except block shows the error but does not log it.
ExtractNoLog(uploaded_file, outcome) ==
    LET t == ExtractTry(uploaded_file, outcome)
    IN  IF t.raised
        THEN [ ret |-> None, raised |-> FALSE, loads |-> t.loads,
               log |-> t.log,
               ui  |-> <<[fn |-> "st.error", msg |-> "read_error", detail |-> t.value]>> ]
        ELSE [ ret |-> t.value, raised |-> FALSE, loads |-> t.loads,
               log |-> t.log, ui |-> << >> ]

\* The whole function: except Exception logs, shows st.error, and falls off
\* the end (returns None).  Result: returned value, whether an exception
\* leaves the function, loaders invoked, log lines, rendered banners.
ExtractTextFromFile(uploaded_file, outcome) ==
    LET t == ExtractTry(uploaded_file, outcome)
    IN  IF t.raised
        THEN [ ret |-> None, raised |-> FALSE, loads |-> t.loads,
               log |-> Append(t.log, [msg |-> "read_error", detail |-> t.value]),
               ui  |-> <<[fn |-> "st.error", msg |-> "read_error", detail |-> t.value]>> ]
        ELSE [ ret |-> t.value, raised |-> FALSE, loads |-> t.loads,
               log |-> t.log, ui |-> << >> ]

(* ----------------------------- get_model ------------------------------ *)
models ==
    ( <<"GigaChat-Lite">> :> "GigaChat" ) @@
    ( <<"GigaChat-Pro">>  :> "GigaChat-Pro" ) @@
    ( <<"GigaChat-Max">>  :> "GigaChat-Max" )

GetModel(name) ==
    IF name \in DOMAIN models
    THEN [ raised |-> FALSE, ret |-> models[name] ]
    ELSE [ raised |-> TRUE, ret |-> "KeyError" ]

(* ------------------- PromptTemplate.from_template --------------------- *)
\* Parsing the f-string template raises ValueError on a lone brace;
\* otherwise the template's input variables are its field names.
FromTemplate(p) ==
    IF \E i \in 1..Len(p) : p[i] \in { "{", "}" }
    THEN [ raised |-> TRUE, input_variables |-> {} ]
    ELSE [ raised |-> FALSE,
           input_variables |->
               { p[i] : i \in { j \in 1..Len(p) : p[j] \in { "{document_text}", "{other}" } } } ]

(* ------------------------------- main --------------------------------- *)
\* The value of st.file_uploader: no file (falsy), or an uploaded file with
\* its name.
NoDoc == [ present |-> FALSE, name |-> << >> ]
Uploaded(name) == [ present |-> TRUE, name |-> name ]
Documents == { Uploaded(n) : n \in UploadNames } \cup { NoDoc }

\* A local that has not been assigned yet.
NoPath == << >>
NoTemplate == {}
NoLLM == [ constructed |-> FALSE ]

Init ==
    /\ pc = "start"
    /\ run = 1
    /\ disk = {}
    /\ document = NoDoc
    /\ prompt = << >>
    /\ api_key = ""
    /\ model_name = << >>
    /\ scope = << >>
    /\ model = None
    /\ start_button = FALSE
    /\ document_path = NoPath
    /\ document_text = None
    /\ template = NoTemplate
    /\ llm = NoLLM
    /\ invocations = << >>
    /\ ui = << >>
    /\ log = << >>
    /\ calls = << >>
    /\ unit = [fn |-> "none"]

\* Mutant: "or" in place of "and".
HasInputsOr(d, k) == d.present \/ k # ""

\* Line 129: if document and api_key.
HasInputs(d, k) == d.present /\ k # ""

\* Lines 90-128 and 154-157: the widgets are read, the model is looked up,
\* and the submit branch is taken.
Render ==
    /\ pc = "start"
    /\ \E d \in Documents, p \in Prompts, k \in ApiKeys,
          m \in ModelSelector, s \in ScopeSelector, b \in BOOLEAN :
          LET gm == GetModel(FirstToken(m))
          IN  /\ document' = d
              /\ prompt' = p
              /\ api_key' = k
              /\ model_name' = m
              /\ scope' = FirstToken(s)
              /\ start_button' = b
              /\ IF gm.raised
                 THEN /\ pc' = "crashed"
                      /\ UNCHANGED <<model, ui>>
                 ELSE /\ model' = gm.ret
                      /\ IF b
                         THEN IF HasInputs(d, k)
                              THEN pc' = "save_file" /\ UNCHANGED ui
                              ELSE /\ pc' = "done"
                                   /\ ui' = Append(ui, [fn |-> "st.error", msg |-> "missing_input",
                                                        detail |-> "missing_input"])
                         ELSE pc' = "done" /\ UNCHANGED ui
    /\ UNCHANGED <<run, disk, document_path, document_text, template, llm,
                   invocations, log, calls, unit>>

\* Mutant: the file is written under its original name while the returned
\* path carries the unique id.
SaveFileOtherName ==
    /\ pc = "save_file"
    /\ document_path' = FileName(ToString(run), document.name)
    /\ disk' = disk \cup { document.name }
    /\ calls' = Append(calls, "save_file")
    /\ pc' = "extract"
    /\ UNCHANGED <<run, document, prompt, api_key, model_name, scope, model,
                   start_button, document_text, template, llm, invocations,
                   ui, log, unit>>

\* Line 130: save_file(document).
SaveFile ==
    /\ pc = "save_file"
    /\ document_path' = FileName(ToString(run), document.name)
    /\ disk' = disk \cup { document_path' }
    /\ calls' = Append(calls, "save_file")
    /\ pc' = "extract"
    /\ UNCHANGED <<run, document, prompt, api_key, model_name, scope, model,
                   start_button, document_text, template, llm, invocations,
                   ui, log, unit>>

\* Line 132: extract_text_from_file(document_path).
Extract ==
    /\ pc = "extract"
    /\ \E o \in LoaderOutcomes :
          LET r == ExtractTextFromFile(document_path, o)
          IN  /\ document_text' = r.ret
              /\ ui' = ui \o r.ui
              /\ log' = log \o r.log
              /\ calls' = Append(calls, "extract_text_from_file") \o r.loads
              /\ pc' = IF r.raised THEN "crashed" ELSE "template"
    /\ UNCHANGED <<run, disk, document, prompt, api_key, model_name, scope,
                   model, start_button, document_path, template, llm,
                   invocations, unit>>

\* Line 134: PromptTemplate.from_template(prompt), outside any try.
BuildTemplate ==
    /\ pc = "template"
    /\ LET t == FromTemplate(prompt)
       IN  IF t.raised
           THEN pc' = "crashed" /\ UNCHANGED template
           ELSE pc' = "llm" /\ template' = t.input_variables
    /\ calls' = Append(calls, "PromptTemplate.from_template")
    /\ UNCHANGED <<run, disk, document, prompt, api_key, model_name, scope,
                   model, start_button, document_path, document_text, llm,
                   invocations, ui, log, unit>>

\* Lines 136-144: the client and the chain.
BuildLLM ==
    /\ pc = "llm"
    /\ llm' = [ model |-> model, credentials |-> api_key, scope |-> scope,
                temperature |-> Temperature, verify_ssl_certs |-> FALSE ]
    /\ calls' = Append(calls, "GigaChat")
    /\ pc' = "invoke"
    /\ UNCHANGED <<run, disk, document, prompt, api_key, model_name, scope,
                   model, start_button, document_path, document_text, template,
                   invocations, ui, log, unit>>

\* Lines 146-151: chain.invoke inside try/except Exception.  Formatting the
\* template raises KeyError when it names a variable other than
\* document_text; otherwise the remote call returns text or raises.
Invoke ==
    /\ pc = "invoke"
    /\ \E o \in ChatOutcomes :
          LET failed == (~ (template \subseteq {"{document_text}"})) \/ o = Raise
          IN  /\ invocations' = Append(invocations,
                                       llm @@ [ document_text |-> document_text,
                                                result |-> IF failed THEN Raise ELSE o ])
              /\ ui' = IF failed
                       THEN Append(ui, [fn |-> "st.error", msg |-> "analysis_failed",
                                        detail |-> "analysis_failed"])
                       ELSE ui \o << [fn |-> "st.header", msg |-> "result_header", detail |-> ""],
                                     [fn |-> "st.markdown", msg |-> o, detail |-> ""] >>
    /\ calls' = Append(calls, "chain.invoke")
    /\ pc' = "finally"
    /\ UNCHANGED <<run, disk, document, prompt, api_key, model_name, scope,
                   model, start_button, document_path, document_text, template,
                   llm, log, unit>>

\* Line 153: finally: os.remove(document_path).
Remove ==
    /\ pc = "finally"
    /\ disk' = disk \ { document_path }
    /\ calls' = Append(calls, "os.remove")
    /\ pc' = "done"
    /\ UNCHANGED <<run, document, prompt, api_key, model_name, scope, model,
                   start_button, document_path, document_text, template, llm,
                   invocations, ui, log, unit>>

\* Lines 160-161: the script is run again from the top for the next
\* interaction; only the disk survives.
Rerun ==
    /\ pc \in { "done", "crashed" }
    /\ run < MaxRuns
    /\ run' = run + 1
    /\ pc' = "start"
    /\ document' = NoDoc
    /\ prompt' = << >>
    /\ api_key' = ""
    /\ model_name' = << >>
    /\ scope' = << >>
    /\ model' = None
    /\ start_button' = FALSE
    /\ document_path' = NoPath
    /\ document_text' = None
    /\ template' = NoTemplate
    /\ llm' = NoLLM
    /\ invocations' = << >>
    /\ ui' = << >>
    /\ log' = << >>
    /\ calls' = << >>
    /\ UNCHANGED <<disk, unit>>

Next ==
    \/ Render
    \/ SaveFile
    \/ Extract
    \/ BuildTemplate
    \/ BuildLLM
    \/ Invoke
    \/ Remove
    \/ Rerun

Spec == Init /\ [][Next]_vars

(* ------------------- the functions called directly -------------------- *)
\* extract_text_from_file(path) for any path and any loader behaviour.
CallExtract ==
    /\ \E path \in UnitPaths, o \in LoaderOutcomes :
          unit' = [ fn |-> "extract_text_from_file", arg |-> path, outcome |-> o,
                    res |-> ExtractTextFromFile(path, o) ]
    /\ UNCHANGED <<pc, run, disk, document, prompt, api_key, model_name, scope,
                   model, start_button, document_path, document_text, template,
                   llm, invocations, ui, log, calls>>

\* get_model(label) for any label.
CallGetModel ==
    /\ \E label \in UnitLabels :
          unit' = [ fn |-> "get_model", arg |-> label, outcome |-> "direct",
                    res |-> GetModel(label) ]
    /\ UNCHANGED <<pc, run, disk, document, prompt, api_key, model_name, scope,
                   model, start_button, document_path, document_text, template,
                   llm, invocations, ui, log, calls>>

\* Line 124: get_model(model_name.split(" ")[0]) for an entry of the selector.
CallSelectModel ==
    /\ \E entry \in ModelSelector :
          unit' = [ fn |-> "get_model", arg |-> entry, outcome |-> "selector",
                    res |-> GetModel(FirstToken(entry)) ]
    /\ UNCHANGED <<pc, run, disk, document, prompt, api_key, model_name, scope,
                   model, start_button, document_path, document_text, template,
                   llm, invocations, ui, log, calls>>

UnitNext ==
    \/ CallExtract
    \/ CallGetModel
    \/ CallSelectModel

UnitSpec == Init /\ [][UnitNext]_vars

(* ============================ properties ============================== *)
\* The run of main has ended: normally, or with an exception leaving main.
Ended == pc \in { "done", "crashed" }

\* The submit button was pressed with a document and an API key.
Analysis == start_button /\ document.present /\ api_key # ""

Count(seq, x) == Cardinality({ i \in 1..Len(seq) : seq[i] = x })

Rendered(fn) == \E i \in 1..Len(ui) : ui[i].fn = fn

\* C1: when a submission with a document and an API key ends, the temp file
\* written by save_file has been removed exactly once and is not on disk.
C1_TempFileRemoved ==
    (Ended /\ Analysis /\ Count(calls, "save_file") = 1)
        => /\ Count(calls, "os.remove") = 1
           /\ document_path \notin disk

\* C2: a submission with a document and an API key ends with a rendered
\* result or a rendered error, and no exception leaves main.
C2_ResultOrError ==
    (Ended /\ Analysis)
        => /\ pc # "crashed"
           /\ Rendered("st.markdown") \/ Rendered("st.error")

\* C3: a submission without a document or without an API key renders the
\* missing-input error and calls none of save_file, extract_text_from_file,
\* the LLM client constructor, chain.invoke; no temp file is created.
C3_MissingInput ==
    (pc # "start" /\ start_button /\ ~ (document.present /\ api_key # ""))
        => /\ pc = "done"
           /\ ui = << [fn |-> "st.error", msg |-> "missing_input", detail |-> "missing_input"] >>
           /\ calls = << >>
           /\ invocations = << >>
           /\ llm = NoLLM
           /\ document_path = NoPath
           /\ \A f \in disk : f[1] # ToString(run)

C3_Witness ==
    /\ pc = "done" /\ start_button /\ ~ document.present /\ api_key # ""
    /\ Len(ui) = 1

\* C9: within a submission the calls happen in the order save_file,
\* extract_text_from_file, chain.invoke, os.remove; the temp file is on disk
\* from save_file until os.remove, so during extraction and the chat call;
\* os.remove never runs before chain.invoke has returned or raised.
MainOrder ==
    << "save_file", "extract_text_from_file", "PromptTemplate.from_template",
       "GigaChat", "chain.invoke", "os.remove" >>

Loaders == { "Docx2txtLoader", "PyPDFLoader" }

MainCalls == SelectSeq(calls, LAMBDA c : c \notin Loaders)

C9_StepOrder ==
    /\ Len(MainCalls) <= Len(MainOrder)
    /\ MainCalls = SubSeq(MainOrder, 1, Len(MainCalls))
    /\ pc \in { "extract", "template", "llm", "invoke", "finally" }
           => document_path \in disk
    /\ (Count(calls, "save_file") = 1 /\ Count(calls, "os.remove") = 0)
           => document_path \in disk
    /\ Count(calls, "os.remove") > 0
           => /\ Count(calls, "chain.invoke") = 1
              /\ Rendered("st.markdown") \/ Rendered("st.error")

C9_Witness ==
    /\ pc = "done"
    /\ MainCalls = MainOrder
    /\ document_path \notin disk

(* ------------------- extract_text_from_file, get_model ----------------- *)
\* The part of a path after its last dot (empty when there is no dot).
Extension(path) ==
    LET dots == { i \in 1..Len(path) : path[i] = "." }
    IN  IF dots = {} THEN << >>
        ELSE SubSeq(path, (CHOOSE i \in dots : \A j \in dots : j <= i) + 1, Len(path))

HasDot(path) == \E i \in 1..Len(path) : path[i] = "."

IsDocx(path) == HasDot(path) /\ Extension(path) = <<"d", "o", "c", "x">>
IsPdf(path) == HasDot(path) /\ Extension(path) = <<"p", "d", "f">>

ExtractCalled == unit.fn = "extract_text_from_file"

ErrorShown(r, detail) ==
    \E i \in 1..Len(r.ui) : r.ui[i].fn = "st.error" /\ r.ui[i].detail = detail

ErrorLogged(r, detail) ==
    \E i \in 1..Len(r.log) : r.log[i].msg = "read_error" /\ r.log[i].detail = detail

\* The loader of a supported path returned at least one document.
ExtractorSucceeded ==
    /\ IsDocx(unit.arg) \/ IsPdf(unit.arg)
    /\ ~ unit.outcome.raises
    /\ Len(unit.outcome.docs) > 0

Labels == { <<"GigaChat-Lite">>, <<"GigaChat-Pro">>, <<"GigaChat-Max">> }
ModelIds == { "GigaChat", "GigaChat-Pro", "GigaChat-Max" }

\* C6: get_model returns a known model identifier for each of the three
\* labels and raises a lookup failure for any other input; for every entry
\* of the selector, the lookup of its first space-separated token succeeds.
C6_GetModelTotal ==
    unit.fn = "get_model" =>
        /\ unit.outcome = "direct" =>
               IF unit.arg \in Labels
               THEN ~ unit.res.raised /\ unit.res.ret \in ModelIds
               ELSE unit.res.raised /\ unit.res.ret = "KeyError"
        /\ unit.outcome = "selector" =>
               ~ unit.res.raised /\ unit.res.ret \in ModelIds

C6_Witness ==
    /\ unit.fn = "get_model"
    /\ unit.outcome = "selector"
    /\ unit.arg = <<"GigaChat-Max", " ", "*", "*", "*">>
    /\ unit.res.ret = "GigaChat-Max"

(* ------------------------------ main, ctd. ----------------------------- *)
ScopeTokens == { <<"GIGACHAT_API_PERS">>, <<"GIGACHAT_API_CORP">>, <<"GIGACHAT_API_B2B">> }

\* C7: a submission with a document and an API key calls chain.invoke
\* exactly once, and the request carries the selected model identifier, the
\* entered credential, one of the three scope tokens, temperature 0 and
\* certificate verification disabled.
C7_OneRequest ==
    (Ended /\ Analysis) =>
        /\ Count(calls, "chain.invoke") = 1
        /\ Len(invocations) = 1
        /\ invocations[1].model = models[FirstToken(model_name)]
        /\ invocations[1].credentials = api_key
        /\ invocations[1].scope \in ScopeTokens
        /\ invocations[1].temperature = 0
        /\ invocations[1].verify_ssl_certs = FALSE

IsError(e) == e.fn = "st.error"

Logged(msg, detail) ==
    \E j \in 1..Len(log) : log[j].msg = msg /\ log[j].detail = detail

\* Every failure that occurred in this run is shown as an st.error banner,
\* and no failure of the four kinds ended the run with an exception.
ErrorsCaughtAndShown ==
    /\ (pc # "start" /\ start_button /\ ~ (document.present /\ api_key # ""))
           => \E i \in 1..Len(ui) : IsError(ui[i]) /\ ui[i].msg = "missing_input"
    /\ (Count(calls, "extract_text_from_file") = 1 /\ document_text = None)
           => \E i \in 1..Len(ui) : IsError(ui[i]) /\ ui[i].msg = "read_error"
    /\ \A n \in 1..Len(invocations) :
           invocations[n].result = Raise
               => \E i \in 1..Len(ui) : IsError(ui[i]) /\ ui[i].msg = "analysis_failed"
    /\ (pc = "crashed" /\ Len(calls) > 0)
           => calls[Len(calls)] = "PromptTemplate.from_template"
    /\ (pc = "crashed") => Len(calls) > 0

\* C8 as stated: every error kind is caught, logged and shown.
C8_AllErrorsLogged ==
    /\ ErrorsCaughtAndShown
    /\ \A i \in 1..Len(ui) :
           IsError(ui[i]) => \E j \in 1..Len(log) : log[j].detail = ui[i].detail

\* C8 amended: every error kind is caught where it occurs and shown as an
\* inline error, and none ends the run of main; the unsupported-format and
\* extraction failures are also logged, the missing-input and remote-call
\* failures are not.
C8_ErrorsCaught ==
    /\ ErrorsCaughtAndShown
    /\ \A i \in 1..Len(ui) :
           (IsError(ui[i]) /\ ui[i].msg = "read_error")
               => Logged("read_error", ui[i].detail)
    /\ \A i \in 1..Len(ui) :
           (IsError(ui[i]) /\ ui[i].detail = "unsupported")
               => Logged("unsupported", "unsupported")
    /\ \A j \in 1..Len(log) : log[j].msg \in { "read_error", "unsupported" }

C8_Witness ==
    /\ pc = "done"
    /\ \E i \in 1..Len(ui) : IsError(ui[i]) /\ ui[i].msg = "read_error"
    /\ \E i \in 1..Len(ui) : IsError(ui[i]) /\ ui[i].msg = "analysis_failed"
    /\ Len(log) = 1

\* C10: when extraction fails in a submission with a document and an API
\* key, document_text is None and chain.invoke is still called with it.
C10_ExtractionFailureContinues ==
    (Ended /\ Analysis /\ Count(calls, "extract_text_from_file") = 1
        /\ (\E i \in 1..Len(ui) : IsError(ui[i]) /\ ui[i].msg = "read_error"))
        => /\ document_text = None
           /\ Len(invocations) = 1
           /\ invocations[1].document_text = None

TypeOK == pc \in { "start", "save_file", "extract", "template", "llm",
                   "invoke", "finally", "done", "crashed" }

====
